---- MODULE Spec2Model ----
(***************************************************************************)
(* objdiff: the controller tick (App::post_rendering), the filesystem      *)
(* watcher (create_watcher) and the build-diff pipeline (run_build).       *)
(*                                                                         *)
(* One controller thread runs the tick; each job runs run_build on its own *)
(* thread; the watcher's callback runs on the notify thread.  The tick is  *)
(* cut where it touches the state shared with those threads: the atomic    *)
(* load of `modified` (app.rs:283) and its store (app.rs:294).             *)
(***************************************************************************)
EXTENDS Integers, Sequences, FiniteSets, TLC

VARIABLES
    config,      \* AppConfig behind Arc<RwLock<..>>            (app.rs:63-74)
    modified,    \* App.modified: Arc<AtomicBool>, the dirty flag (app.rs:84)
    watcher,     \* App.watcher: Option<RecommendedWatcher>     (app.rs:86)
    subs,        \* the roots of the live notify subscriptions
    jobs,        \* ViewState.jobs: Vec<JobState> with each worker's thread state
    build,       \* ViewState.build: Option<Box<BuildResult>>   (app.rs:47)
    pc,          \* the controller's position in post_rendering
    nextId,      \* JOB_ID, the next job identifier
    reaped,      \* history: what the latest poll step joined and logged
    sched,       \* history: what the scheduler did in the latest tick, in order
    unbuilt,     \* history: what set the dirty flag after the last enqueue
    lastEvent,   \* history: the event the watcher callback handled last
    peakSubs,    \* history: the most subscriptions ever live at one instant
    replRoot,    \* history: the root the last watcher replacement read
    dropped      \* history: the last root-change step ended a live subscription

vars == <<config, modified, watcher, subs, jobs, build, pc, nextId,
          reaped, sched, unbuilt, lastEvent, peakSubs, replRoot, dropped>>

----------------------------------------------------------------------------
(* Option<T>: None is the empty tuple, Some(x) the one-element tuple.      *)

None == <<>>

Some(x) == <<x>>

IsSome(o) == o # <<>>

Unwrap(o) == o[1]

----------------------------------------------------------------------------
(* Bounds of the model.                                                    *)

\* The environment (events, edits, cancel clicks) stops once this many jobs
\* have been started; the scheduler itself is never held back.
MaxJobs == 2

----------------------------------------------------------------------------
(* Paths.  A directory is a sequence of components; PathBuf::push of a     *)
(* relative path appends, Path::strip_prefix succeeds iff the base is a    *)
(* prefix.                                                                 *)

IsPrefix(base, p) ==
    /\ Len(base) <= Len(p)
    /\ SubSeq(p, 1, Len(base)) = base

\* Path::strip_prefix: Ok(rest) as Some(rest), Err as None.
strip_prefix(p, base) ==
    IF IsPrefix(base, p) THEN Some(SubSeq(p, Len(base) + 1, Len(p))) ELSE None

\* PathBuf::push of a relative path.
push(dir, rel) == dir \o rel

ProjectDirs == {<<"p">>, <<"q">>}

AsmDirs == {<<"p", "asm">>}

SrcDirs == {<<"p", "src">>, <<"q", "src">>}

ObjPaths == {<<"foo.o">>}

OptionOf(S) == {None} \cup {Some(x) : x \in S}

\* AppConfig::default(): every field None, the flag false (app.rs:61).
DefaultConfig ==
    [project_dir |-> None, build_asm_dir |-> None, build_src_dir |-> None,
     build_obj |-> None, project_dir_change |-> FALSE]

\* The configurations a previous run may have persisted (eframe storage).
PersistedConfigs ==
    { DefaultConfig,
      [DefaultConfig EXCEPT !.project_dir = Some(<<"p">>),
                            !.build_asm_dir = Some(<<"p", "asm">>),
                            !.build_src_dir = Some(<<"p", "src">>),
                            !.build_obj = Some(<<"foo.o">>)],
      [DefaultConfig EXCEPT !.project_dir = Some(<<"p">>),
                            !.build_asm_dir = Some(<<"p", "asm">>),
                            !.build_src_dir = Some(<<"p", "src">>)] }

\* Configurations with a project directory, with or without each build
\* directory, for the target foo.o.
PipelineConfigs ==
    { [DefaultConfig EXCEPT !.project_dir = Some(d), !.build_asm_dir = a,
                            !.build_src_dir = s, !.build_obj = Some(<<"foo.o">>)] :
        d \in ProjectDirs, a \in OptionOf(AsmDirs), s \in OptionOf(SrcDirs) }

----------------------------------------------------------------------------
(* The watcher callback's filter (create_watcher, app.rs:306-320).         *)
(* A file name is a sequence of characters.                                *)

Max(S) == CHOOSE x \in S : \A y \in S : y <= x

\* Path::extension(): None without a dot, None for a name whose only dot
\* is its first character, else the part after the last dot.
extension(name) ==
    LET dots == {i \in 1..Len(name) : name[i] = "."}
    IN  IF dots = {} THEN None
        ELSE IF Max(dots) = 1 THEN None
        ELSE Some(SubSeq(name, Max(dots) + 1, Len(name)))

watch_extensions_plus_o ==
    { Some(<<"c">>), Some(<<"c", "p">>), Some(<<"c", "p", "p">>),
      Some(<<"h">>), Some(<<"h", "p", "p">>), Some(<<"o">>) }

\* app.rs:309-315
watch_extensions ==
    { Some(<<"c">>), Some(<<"c", "p">>), Some(<<"c", "p", "p">>),
      Some(<<"h">>), Some(<<"h", "p", "p">>) }

\* app.rs:308 and 316: the kind is Modify(..) and some path's extension is
\* in the allow-list.
sets_modified(event) ==
    /\ event.kind = "Modify"
    /\ \E i \in 1..Len(event.paths) : extension(event.paths[i]) \in watch_extensions

FileC == <<"a", ".", "c">>

FileO == <<"a", ".", "o">>

FileHpp == <<"b", ".", "h", "p", "p">>

FileDotH == <<".", "h">>

FileCpO == <<"a", ".", "c", "p", ".", "o">>

\* The events the notify thread delivers.
Events ==
    { [kind |-> "Modify", paths |-> <<FileC>>],
      [kind |-> "Modify", paths |-> <<FileO>>],
      [kind |-> "Modify", paths |-> <<FileO, FileHpp>>],
      [kind |-> "Modify", paths |-> <<FileDotH, FileCpO>>],
      [kind |-> "Modify", paths |-> <<>>],
      [kind |-> "Create", paths |-> <<FileC>>] }

----------------------------------------------------------------------------
(* The external build tool (run_make, build.rs:29-46).  What one run of    *)
(* `make` can do: fail to launch, or exit with captured output.            *)

MakeOutcomes ==
    { [launched |-> FALSE, stdout_utf8 |-> TRUE, stderr_utf8 |-> TRUE, code |-> None],
      [launched |-> TRUE, stdout_utf8 |-> TRUE, stderr_utf8 |-> TRUE, code |-> Some(0)],
      [launched |-> TRUE, stdout_utf8 |-> TRUE, stderr_utf8 |-> TRUE, code |-> Some(1)],
      [launched |-> TRUE, stdout_utf8 |-> TRUE, stderr_utf8 |-> TRUE, code |-> None],
      [launched |-> TRUE, stdout_utf8 |-> FALSE, stderr_utf8 |-> TRUE, code |-> Some(0)],
      [launched |-> TRUE, stdout_utf8 |-> TRUE, stderr_utf8 |-> FALSE, code |-> Some(0)] }

\* Option::unwrap_or
unwrap_or(o, d) == IF IsSome(o) THEN Unwrap(o) ELSE d

\* build.rs:29-46: every failure inside the closure becomes a failed
\* BuildStatus whose log is the error's text.
run_make(o) ==
    IF ~o.launched THEN [success |-> FALSE, log |-> "Failed to execute build"]
    ELSE IF ~o.stdout_utf8 THEN [success |-> FALSE, log |-> "Failed to process stdout"]
    ELSE IF ~o.stderr_utf8 THEN [success |-> FALSE, log |-> "Failed to process stderr"]
    ELSE [success |-> unwrap_or(o.code, -1) = 0, log |-> "stdout\nstderr"]

\* The tool exits 0 or 1 with readable output.
ToolRuns == {o \in MakeOutcomes : o.launched /\ o.stdout_utf8 /\ o.stderr_utf8 /\ IsSome(o.code)}

\* The tool exits 0 with readable output.
ToolOk == {o \in ToolRuns : o.code = Some(0)}

\* What elf::read and diff_objs (external collaborators) can do.
CallOutcomes == {"ok", "err", "panic"}

\* The collaborators return, with a value or an error.
CallsDone == {"ok", "err"}

----------------------------------------------------------------------------
(* Jobs (crate::jobs: queue_job, update_status, Status, JobState).         *)

\* The total every update_status call of run_build passes (build.rs:74).
TotalSteps == 5

\* The Status a new job starts with.
NewStatus == [step |-> 0, total |-> 0, message |-> "", error |-> None]

NoCalls == [make_asm |-> 0, make_src |-> 0, read_asm |-> 0, read_src |-> 0, diff |-> 0]

\* queue_job: a fresh Status, a fresh cancel channel, a spawned worker.
\* What the new entry's should_remove is, is not given: app.rs only reads
\* the field (lines 257 and 261); `removable` stands for either value.
\* The fields after `status` are the worker thread's own state; `calls`,
\* `tool`, `cps`, `cancelledAt` (the checkpoint that received the token)
\* and `askedEarly` (the token was sent before the first checkpoint ran)
\* are history.
queue_job(id, job_type, obj_path, removable) ==
    [id |-> id, job_type |-> job_type, handle |-> TRUE, should_remove |-> removable,
     token |-> FALSE, status |-> NewStatus,
     obj_path |-> obj_path, pc |-> "snapshot", ret |-> "Running", snap |-> None,
     first_status |-> None, second_status |-> None,
     first_obj |-> None, second_obj |-> None,
     calls |-> NoCalls, tool |-> <<None, None>>, cps |-> {}, cancelledAt |-> -1,
     askedEarly |-> FALSE]

\* build.rs:103-107: a Build job running run_build on obj_path.
queue_build(id, obj_path, removable) == queue_job(id, "Build", obj_path, removable)

\* update_status: overwrite {message, step, total}, then poll the cancel
\* channel without blocking (a received token is consumed).
update_status(status, message, step, total, token) ==
    [status |-> [status EXCEPT !.message = message, !.step = step, !.total = total],
     cancelled |-> token]

\* queue_job's worker closure on Err(e): the error is attached to the
\* Status and the thread returns JobResult::None.
Failed(j, e) ==
    [j EXCEPT !.status.error = Some(e), !.ret = "None", !.pc = "finished"]

\* queue_job's worker closure on Cancelled: JobResult::None and no error.
Cancelled(j) ==
    [j EXCEPT !.ret = "None", !.pc = "finished"]

\* A panic in the worker: the thread ends and join() returns Err.
Panicked(j) ==
    [j EXCEPT !.ret = "Panic", !.pc = "finished"]

\* JoinHandle::is_finished
is_finished(j) == j.pc = "finished"

----------------------------------------------------------------------------
(* The build-diff pipeline (run_build, build.rs:48-101).                   *)

Snapshot_SrcUnchecked(j, cfg) ==
    IF ~IsSome(cfg.project_dir) THEN Failed(j, "Missing project dir")
    ELSE IF ~IsSome(cfg.build_asm_dir) THEN Failed(j, "Missing build asm dir")
    ELSE IF ~IsSome(cfg.build_src_dir) THEN Failed(j, "Missing build src dir")
    ELSE LET project_dir == Unwrap(cfg.project_dir)
             asm_path == push(Unwrap(cfg.build_asm_dir), j.obj_path)
             src_path == push(Unwrap(cfg.build_src_dir), j.obj_path)
             asm_path_rel == strip_prefix(asm_path, project_dir)
         IN  IF ~IsSome(asm_path_rel)
                 THEN Failed(j, "Failed to create relative asm obj path")
             ELSE [j EXCEPT !.pc = "cp0",
                            !.snap = Some([project_dir |-> project_dir,
                                           asm_path |-> asm_path,
                                           src_path |-> src_path,
                                           asm_path_rel |-> Unwrap(asm_path_rel),
                                           src_path_rel |-> src_path])]

\* build.rs:54-72: clone the configuration under the read lock, resolve
\* the two object paths; any failure is the job's error.
Snapshot(j, cfg) ==
    IF ~IsSome(cfg.project_dir) THEN Failed(j, "Missing project dir")
    ELSE IF ~IsSome(cfg.build_asm_dir) THEN Failed(j, "Missing build asm dir")
    ELSE IF ~IsSome(cfg.build_src_dir) THEN Failed(j, "Missing build src dir")
    ELSE LET project_dir == Unwrap(cfg.project_dir)
             asm_path == push(Unwrap(cfg.build_asm_dir), j.obj_path)
             src_path == push(Unwrap(cfg.build_src_dir), j.obj_path)
             asm_path_rel == strip_prefix(asm_path, project_dir)
             src_path_rel == strip_prefix(src_path, project_dir)
         IN  IF ~IsSome(asm_path_rel)
                 THEN Failed(j, "Failed to create relative asm obj path")
             ELSE IF ~IsSome(src_path_rel)
                 THEN Failed(j, "Failed to create relative src obj path")
             ELSE [j EXCEPT !.pc = "cp0",
                            !.snap = Some([project_dir |-> project_dir,
                                           asm_path |-> asm_path,
                                           src_path |-> src_path,
                                           asm_path_rel |-> Unwrap(asm_path_rel),
                                           src_path_rel |-> Unwrap(src_path_rel)])]

RECURSIVE PathText(_)
\* The text `{}` gives for a path: its components joined by "/".
PathText(p) ==
    IF p = <<>> THEN ""
    ELSE IF Len(p) = 1 THEN p[1]
    ELSE p[1] \o "/" \o PathText(Tail(p))

\* The message of the k-th update_status call (build.rs:74,77,81,88,95,99):
\* format!("Building asm {}", obj_path) and the like for the first four.
StageMessage(k, obj_path) ==
    CASE k = 0 -> "Building asm " \o PathText(obj_path)
      [] k = 1 -> "Building src " \o PathText(obj_path)
      [] k = 2 -> "Loading asm " \o PathText(obj_path)
      [] k = 3 -> "Loading src " \o PathText(obj_path)
      [] k = 4 -> "Performing diff"
      [] k = 5 -> "Complete"

\* What follows the k-th checkpoint when it is passed; after the last one
\* run_build returns Ok(BuildResult) (build.rs:100).
StageAfter(k) ==
    CASE k = 0 -> "make_asm"
      [] k = 1 -> "make_src"
      [] k = 2 -> "load_asm"
      [] k = 3 -> "load_src"
      [] k = 4 -> "diff"
      [] k = 5 -> "finished"

CheckpointOf(p) ==
    CASE p = "cp0" -> 0 [] p = "cp1" -> 1 [] p = "cp2" -> 2
      [] p = "cp3" -> 3 [] p = "cp4" -> 4 [] p = "cp5" -> 5

Checkpoints == {"cp0", "cp1", "cp2", "cp3", "cp4", "cp5"}

Goto(j, next) ==
    IF next = "finished" THEN [j EXCEPT !.pc = next, !.ret = "Build"]
    ELSE [j EXCEPT !.pc = next]

Checkpoint_NoCancel(j, k) ==
    LET u == update_status(j.status, StageMessage(k, j.obj_path), k, TotalSteps, j.token)
        w == [j EXCEPT !.status = u.status, !.token = FALSE, !.cps = @ \cup {k},
                       !.cancelledAt = IF u.cancelled THEN k ELSE @]
    IN  Goto(w, StageAfter(k))

Checkpoint_LastUnchecked(j, k) ==
    LET u == update_status(j.status, StageMessage(k, j.obj_path), k, TotalSteps, j.token)
        w == [j EXCEPT !.status = u.status, !.token = FALSE, !.cps = @ \cup {k}]
    IN  IF u.cancelled /\ k # 5 THEN Cancelled([w EXCEPT !.cancelledAt = k])
        ELSE Goto(w, StageAfter(k))

Checkpoint_SkipsLast(j, k) ==
    LET u == update_status(j.status, StageMessage(k, j.obj_path), k, TotalSteps, j.token)
        w == [j EXCEPT !.status = IF k = 5 THEN j.status ELSE u.status,
                       !.token = FALSE, !.cps = @ \cup {k}]
    IN  IF u.cancelled THEN Cancelled([w EXCEPT !.cancelledAt = k])
        ELSE Goto(w, StageAfter(k))

\* `update_status(status, .., k, 5, &cancel)?` (build.rs:74,77,81,88,95,99):
\* the status is written, and a received token ends run_build there.
Checkpoint(j, k) ==
    LET u == update_status(j.status, StageMessage(k, j.obj_path), k, TotalSteps, j.token)
        w == [j EXCEPT !.status = u.status, !.token = FALSE, !.cps = @ \cup {k}]
    IN  IF u.cancelled THEN Cancelled([w EXCEPT !.cancelledAt = k])
        ELSE Goto(w, StageAfter(k))

AfterLoads_Never(j) == "cp5"

\* build.rs:94: the diff runs only when both objects are loaded.
AfterLoads(j) ==
    IF IsSome(j.first_obj) /\ IsSome(j.second_obj) THEN "cp4" ELSE "cp5"

\* build.rs:87: the src object is loaded only when its build succeeded.
AfterFirstLoad(j) ==
    IF Unwrap(j.second_status).success THEN "cp3" ELSE AfterLoads(j)

AfterBuilds_IgnoresStatus(j) == "cp2"

\* build.rs:80: the asm object is loaded only when its build succeeded.
AfterBuilds(j) ==
    IF Unwrap(j.first_status).success THEN "cp2" ELSE AfterFirstLoad(j)

\* build.rs:75
RunMakeAsm(j, o) ==
    [j EXCEPT !.first_status = Some(run_make(o)), !.pc = "cp1",
              !.calls.make_asm = @ + 1, !.tool[1] = Some(o)]

\* build.rs:78
RunMakeSrc(j, o) ==
    LET w == [j EXCEPT !.second_status = Some(run_make(o)),
                       !.calls.make_src = @ + 1, !.tool[2] = Some(o)]
    IN  [w EXCEPT !.pc = AfterBuilds(w)]

\* The parsed object; `diffed` is set once diff_objs has annotated it.
ObjInfo(path) == [path |-> path, diffed |-> FALSE]

LoadAsm_Tolerant(j, r) ==
    LET w == [j EXCEPT !.calls.read_asm = @ + 1]
    IN  CASE r = "ok" ->
               LET v == [w EXCEPT !.first_obj = Some(ObjInfo(Unwrap(j.snap).asm_path))]
               IN  [v EXCEPT !.pc = AfterFirstLoad(v)]
          [] r = "err" -> [w EXCEPT !.pc = AfterFirstLoad(w)]
          [] r = "panic" -> Panicked(w)

\* build.rs:82: Some(elf::read(&asm_path)?)
LoadAsm(j, r) ==
    LET w == [j EXCEPT !.calls.read_asm = @ + 1]
    IN  CASE r = "ok" ->
               LET v == [w EXCEPT !.first_obj = Some(ObjInfo(Unwrap(j.snap).asm_path))]
               IN  [v EXCEPT !.pc = AfterFirstLoad(v)]
          [] r = "err" -> Failed(w, "Failed to read object")
          [] r = "panic" -> Panicked(w)

\* build.rs:89: Some(elf::read(&src_path)?)
LoadSrc(j, r) ==
    LET w == [j EXCEPT !.calls.read_src = @ + 1]
    IN  CASE r = "ok" ->
               LET v == [w EXCEPT !.second_obj = Some(ObjInfo(Unwrap(j.snap).src_path))]
               IN  [v EXCEPT !.pc = AfterLoads(v)]
          [] r = "err" -> Failed(w, "Failed to read object")
          [] r = "panic" -> Panicked(w)

\* build.rs:96: diff_objs(first_obj, second_obj)? annotates both in place.
Diff(j, r) ==
    LET w == [j EXCEPT !.calls.diff = @ + 1]
    IN  CASE r = "ok" ->
               [w EXCEPT !.first_obj = Some([Unwrap(j.first_obj) EXCEPT !.diffed = TRUE]),
                         !.second_obj = Some([Unwrap(j.second_obj) EXCEPT !.diffed = TRUE]),
                         !.pc = "cp5"]
          [] r = "err" -> Failed(w, "Failed to diff objects")
          [] r = "panic" -> Panicked(w)

\* build.rs:100
BuildResult(j) ==
    [first_status |-> Unwrap(j.first_status), second_status |-> Unwrap(j.second_status),
     first_obj |-> j.first_obj, second_obj |-> j.second_obj]

----------------------------------------------------------------------------
(* The controller tick: App::post_rendering (app.rs:217-298).              *)

LogsError_OnlyStatus(j) == j.ret = "None" /\ IsSome(j.status.error)

\* app.rs:228 and 251-253: the error of a job that returned
\* JobResult::None is logged, and so is a failed join.
LogsError(j) ==
    \/ j.ret = "None" /\ IsSome(j.status.error)
    \/ j.ret = "Panic"

ShouldJoin_AnyHandle(j) == j.handle

\* app.rs:219-222: a job is joined when its handle is present and its
\* worker has finished.
ShouldJoin(j) == j.handle /\ is_finished(j)

Join_KeepsHandle(j) == j

\* app.rs:223: job.handle.take().unwrap().join()
Join(j) == [j EXCEPT !.handle = FALSE]

Deliver_KeepsFirst(b, j) ==
    IF IsSome(b) THEN b
    ELSE IF j.ret = "Build" THEN Some(BuildResult(j))
    ELSE b

\* app.rs:226-249: what view_state.build holds after the joined job's
\* outcome is handled, b being what it held before.  A BinDiff result is
\* wrapped with two successful, empty build statuses.
Deliver(b, j) ==
    CASE j.ret = "Build" -> Some(BuildResult(j))
      [] j.ret = "BinDiff" ->
           Some([first_status |-> [success |-> TRUE, log |-> ""],
                 second_status |-> [success |-> TRUE, log |-> ""],
                 first_obj |-> j.first_obj, second_obj |-> j.second_obj])
      [] OTHER -> b

RECURSIVE PollFrom(_, _, _, _)
\* The loop of app.rs:218-256 from index i on: every job whose handle is
\* present and finished is joined (its handle taken); a delivered result
\* replaces view_state.build; an error or a failed join is logged.
PollFrom(js, i, b, log) ==
    IF i > Len(js) THEN [jobs |-> js, build |-> b, log |-> log]
    ELSE IF ShouldJoin(js[i])
         THEN PollFrom([js EXCEPT ![i] = Join(js[i])], i + 1,
                       Deliver(b, js[i]),
                       Append(log, [id |-> js[i].id, ret |-> js[i].ret,
                                    error |-> js[i].status.error,
                                    cancelledAt |-> js[i].cancelledAt,
                                    askedEarly |-> js[i].askedEarly,
                                    calls |-> js[i].calls,
                                    delivered |-> js[i].ret \in {"Build", "BinDiff"},
                                    error_logged |-> LogsError(js[i])]))
         ELSE PollFrom(js, i + 1, b, log)

Prune_IgnoresHandle(js) == SelectSeq(js, LAMBDA j : ~j.should_remove)

\* app.rs:257-267: entries marked removable whose handle was taken go.
Prune(js) ==
    IF \E i \in 1..Len(js) : js[i].should_remove
    THEN SelectSeq(js, LAMBDA j : ~(j.should_remove /\ ~j.handle))
    ELSE js

\* app.rs:218-267.  join() waits for its thread: the step is taken once
\* every job it joins has finished.
PollJobs ==
    /\ pc = "poll"
    /\ \A i \in 1..Len(jobs) : ShouldJoin(jobs[i]) => is_finished(jobs[i])
    /\ LET r == PollFrom(jobs, 1, build, <<>>)
       IN  /\ jobs' = Prune(r.jobs)
           /\ build' = r.build
           /\ reaped' = r.log
    /\ sched' = <<>>
    /\ pc' = "lock"
    /\ UNCHANGED <<config, modified, watcher, subs, nextId, unbuilt, lastEvent,
                   peakSubs, replRoot, dropped>>

RECURSIVE RemoveOne(_, _)
\* The subscriptions without one rooted at r.
RemoveOne(s, r) ==
    IF s = <<>> THEN <<>>
    ELSE IF Head(s) = r THEN Tail(s)
    ELSE <<Head(s)>> \o RemoveOne(Tail(s), r)

\* Dropping an Option<RecommendedWatcher>: its subscription ends.
DropWatcher(ws) ==
    IF IsSome(ws.watcher)
    THEN [ws EXCEPT !.watcher = None, !.subs = RemoveOne(@, Unwrap(ws.watcher))]
    ELSE ws

TakeAndDrop_Keep(ws) == ws

\* app.rs:271: drop(self.watcher.take())
TakeAndDrop(ws) == DropWatcher(ws)

InstallWatcher_Leaks(ws, project_dir, ok) ==
    IF ok
    THEN LET made == [ws EXCEPT !.subs = Append(@, project_dir),
                                !.peak = IF Len(ws.subs) + 1 > @ THEN Len(ws.subs) + 1 ELSE @]
             old == DropWatcher(made)
         IN  [old EXCEPT !.watcher = Some(project_dir)]
    ELSE [ws EXCEPT !.subs = Append(@, project_dir)]

\* app.rs:273-276: create_watcher(..) subscribes; on Ok the new watcher is
\* assigned (dropping whatever self.watcher still held), on Err nothing is.
InstallWatcher(ws, project_dir, ok) ==
    IF ok
    THEN LET made == [ws EXCEPT !.subs = Append(@, project_dir),
                                !.peak = IF Len(ws.subs) + 1 > @ THEN Len(ws.subs) + 1 ELSE @]
             old == DropWatcher(made)
         IN  [old EXCEPT !.watcher = Some(project_dir)]
    ELSE ws

SchedulerRuns_NoTarget(cfg, mod) == mod

\* app.rs:282-283: the scheduler acts when a target object is configured
\* and the dirty flag is read true.
SchedulerRuns(cfg, mod) == IsSome(cfg.build_obj) /\ mod

\* app.rs:269-283: under the configuration write lock, the root-change
\* step, then the scheduler's read of build_obj and of the dirty flag.
UpdateWatcher ==
    /\ pc = "lock"
    /\ \E ok \in BOOLEAN :
         LET ws0 == [watcher |-> watcher, subs |-> subs, peak |-> peakSubs]
             rootChange == config.project_dir_change
             hasRoot == IsSome(config.project_dir)
             ws1 == IF rootChange THEN TakeAndDrop(ws0) ELSE ws0
             ws2 == IF rootChange /\ hasRoot
                    THEN InstallWatcher(ws1, Unwrap(config.project_dir), ok)
                    ELSE ws1
             mod1 == IF rootChange /\ hasRoot THEN TRUE ELSE modified
         IN  /\ watcher' = ws2.watcher
             /\ subs' = ws2.subs
             /\ peakSubs' = ws2.peak
             /\ config' = IF rootChange /\ hasRoot
                          THEN [config EXCEPT !.project_dir_change = FALSE]
                          ELSE config
             /\ replRoot' = IF rootChange /\ hasRoot THEN config.project_dir ELSE replRoot
             /\ dropped' = IF rootChange THEN Len(ws1.subs) < Len(subs) ELSE dropped
             /\ modified' = mod1
             /\ unbuilt' = IF rootChange /\ hasRoot THEN unbuilt \cup {"root"} ELSE unbuilt
             /\ pc' = IF SchedulerRuns(config, mod1) THEN "sched" ELSE "poll"
    /\ UNCHANGED <<jobs, build, nextId, reaped, sched, lastEvent>>

BuildInFlight_Never(js) == FALSE

\* app.rs:284-289: some Build job still holds its handle.
BuildInFlight(js) ==
    \E i \in 1..Len(js) : js[i].job_type = "Build" /\ js[i].handle

\* The new entries are marked removable.
Marked == {TRUE}

\* The new entries are marked removable or not.
MarkedOrNot == BOOLEAN

\* app.rs:284-293: the dirty flag was read true; enqueue a Build job for
\* build_obj unless a Build job is in flight.  R is what queue_job may
\* make of should_remove.
Schedule(R) ==
    /\ pc = "sched"
    /\ IF ~BuildInFlight(jobs)
       THEN /\ \E removable \in R :
                 jobs' = Append(jobs, queue_build(nextId, Unwrap(config.build_obj),
                                                  removable))
            /\ nextId' = nextId + 1
            /\ unbuilt' = {}
            /\ sched' = Append(sched, "enqueue")
       ELSE UNCHANGED <<jobs, nextId, unbuilt, sched>>
    /\ pc' = "clear"
    /\ UNCHANGED <<config, modified, watcher, subs, build, reaped, lastEvent,
                   peakSubs, replRoot, dropped>>

\* app.rs:294: the dirty flag is cleared, whether or not a job was
\* enqueued; the write lock is released as the tick ends.
ClearModified ==
    /\ pc = "clear"
    /\ modified' = FALSE
    /\ sched' = Append(sched, "clear")
    /\ pc' = "poll"
    /\ UNCHANGED <<config, watcher, subs, jobs, build, nextId, reaped, unbuilt,
                   lastEvent, peakSubs, replRoot, dropped>>

----------------------------------------------------------------------------
(* The notify thread: the closure of create_watcher (app.rs:306-322).      *)

\* One event delivered by a live subscription.
WatchEvent(E) ==
    /\ nextId <= MaxJobs
    /\ subs # <<>>
    /\ \E e \in E :
         /\ modified' = IF sets_modified(e) THEN TRUE ELSE modified
         /\ unbuilt' = IF sets_modified(e) THEN unbuilt \cup {"event"} ELSE unbuilt
         /\ lastEvent' = Some(e)
    /\ UNCHANGED <<config, watcher, subs, jobs, build, pc, nextId, reaped, sched,
                   peakSubs, replRoot, dropped>>

----------------------------------------------------------------------------
(* The control surface (App::update, between two post_rendering calls).    *)

\* The user picks another project directory: the flag is set with it.
SetProjectDir ==
    /\ pc = "poll" /\ nextId <= MaxJobs
    /\ \E d \in OptionOf(ProjectDirs) :
         /\ d # config.project_dir
         /\ config' = [config EXCEPT !.project_dir = d, !.project_dir_change = TRUE]
    /\ UNCHANGED <<modified, watcher, subs, jobs, build, pc, nextId, reaped, sched,
                   unbuilt, lastEvent, peakSubs, replRoot, dropped>>

\* The user picks or clears the target object.
SetBuildObj ==
    /\ pc = "poll" /\ nextId <= MaxJobs
    /\ \E o \in OptionOf(ObjPaths) :
         o # config.build_obj /\ config' = [config EXCEPT !.build_obj = o]
    /\ UNCHANGED <<modified, watcher, subs, jobs, build, pc, nextId, reaped, sched,
                   unbuilt, lastEvent, peakSubs, replRoot, dropped>>

\* The user cancels job i: one token goes into its cancel channel.
Cancel ==
    /\ pc = "poll" /\ nextId <= MaxJobs
    /\ \E i \in 1..Len(jobs) :
         /\ jobs[i].handle /\ ~is_finished(jobs[i]) /\ ~jobs[i].token
         /\ jobs' = [jobs EXCEPT ![i].token = TRUE,
                                 ![i].askedEarly = jobs[i].pc \in {"snapshot", "cp0"}]
    /\ UNCHANGED <<config, modified, watcher, subs, build, pc, nextId, reaped, sched,
                   unbuilt, lastEvent, peakSubs, replRoot, dropped>>

----------------------------------------------------------------------------
(* The worker threads.                                                     *)

WorkerFrame ==
    UNCHANGED <<config, modified, watcher, subs, build, pc, nextId, reaped, sched,
                unbuilt, lastEvent, peakSubs, replRoot, dropped>>

\* build.rs:54-72; config.read() waits while the controller holds the
\* write lock (from app.rs:269 to the end of the tick).
WorkerSnapshot ==
    /\ pc \notin {"sched", "clear"}
    /\ \E i \in 1..Len(jobs) :
         /\ jobs[i].pc = "snapshot"
         /\ jobs' = [jobs EXCEPT ![i] = Snapshot(jobs[i], config)]
    /\ WorkerFrame

WorkerCheckpoint ==
    /\ \E i \in 1..Len(jobs) :
         /\ jobs[i].pc \in Checkpoints
         /\ jobs' = [jobs EXCEPT ![i] = Checkpoint(jobs[i], CheckpointOf(jobs[i].pc))]
    /\ WorkerFrame

WorkerMake(MO) ==
    /\ \E i \in 1..Len(jobs), o \in MO :
         \/ /\ jobs[i].pc = "make_asm"
            /\ jobs' = [jobs EXCEPT ![i] = RunMakeAsm(jobs[i], o)]
         \/ /\ jobs[i].pc = "make_src"
            /\ jobs' = [jobs EXCEPT ![i] = RunMakeSrc(jobs[i], o)]
    /\ WorkerFrame

WorkerLoad(CO) ==
    /\ \E i \in 1..Len(jobs), r \in CO :
         \/ /\ jobs[i].pc = "load_asm"
            /\ jobs' = [jobs EXCEPT ![i] = LoadAsm(jobs[i], r)]
         \/ /\ jobs[i].pc = "load_src"
            /\ jobs' = [jobs EXCEPT ![i] = LoadSrc(jobs[i], r)]
    /\ WorkerFrame

WorkerDiff(CO) ==
    /\ \E i \in 1..Len(jobs), r \in CO :
         /\ jobs[i].pc = "diff"
         /\ jobs' = [jobs EXCEPT ![i] = Diff(jobs[i], r)]
    /\ WorkerFrame

----------------------------------------------------------------------------
(* The system.                                                             *)

\* App::new (app.rs:104-121) over App::default (app.rs:89-98): a persisted
\* project directory sets project_dir_change.
Init ==
    /\ \E c \in PersistedConfigs :
         config = [c EXCEPT !.project_dir_change = IsSome(c.project_dir)]
    /\ modified = FALSE
    /\ watcher = None
    /\ subs = <<>>
    /\ jobs = <<>>
    /\ build = None
    /\ pc = "poll"
    /\ nextId = 1
    /\ reaped = <<>>
    /\ sched = <<>>
    /\ unbuilt = {}
    /\ lastEvent = None
    /\ peakSubs = 0
    /\ replRoot = None
    /\ dropped = FALSE

Tick == PollJobs \/ UpdateWatcher \/ Schedule(Marked) \/ ClearModified

Next ==
    \/ PollJobs
    \/ UpdateWatcher
    \/ Schedule(Marked)
    \/ ClearModified
    \/ WatchEvent(Events)
    \/ SetProjectDir
    \/ SetBuildObj
    \/ WorkerSnapshot
    \/ WorkerCheckpoint
    \/ WorkerMake(ToolRuns)
    \/ WorkerLoad(CallsDone)
    \/ WorkerDiff(CallsDone)

Spec == Init /\ [][Next]_vars

\* The controller keeps ticking and every worker keeps running; a worker
\* waiting for the configuration read lock gets it, the controller
\* releasing the write lock at the end of every tick.
FairSpec ==
    /\ Spec
    /\ WF_vars(Tick)
    /\ SF_vars(WorkerSnapshot)
    /\ WF_vars(WorkerCheckpoint \/ WorkerMake(ToolRuns)
                 \/ WorkerLoad(CallsDone) \/ WorkerDiff(CallsDone))

\* The pipeline under every outcome of its collaborators and under
\* cancellation, driven by the same controller; rebuilds are triggered by
\* root changes.
PipelineInit ==
    /\ \E c \in PipelineConfigs :
         config = [c EXCEPT !.project_dir_change = IsSome(c.project_dir)]
    /\ modified = FALSE
    /\ watcher = None
    /\ subs = <<>>
    /\ jobs = <<>>
    /\ build = None
    /\ pc = "poll"
    /\ nextId = 1
    /\ reaped = <<>>
    /\ sched = <<>>
    /\ unbuilt = {}
    /\ lastEvent = None
    /\ peakSubs = 0
    /\ replRoot = None
    /\ dropped = FALSE

PipelineNext ==
    \/ PollJobs
    \/ UpdateWatcher
    \/ Schedule(Marked)
    \/ ClearModified
    \/ SetProjectDir
    \/ Cancel
    \/ WorkerSnapshot
    \/ WorkerCheckpoint
    \/ WorkerMake(MakeOutcomes)
    \/ WorkerLoad(CallOutcomes)
    \/ WorkerDiff(CallOutcomes)

PipelineSpec == PipelineInit /\ [][PipelineNext]_vars

----------------------------------------------------------------------------
(* The registry with jobs of two kinds in flight at once.  A BinDiff job   *)
(* (JobResult::BinDiff, app.rs:235-248) is enqueued from the control       *)
(* surface; its worker compares two binaries in one step.                  *)

\* A BinDiff job; `keep` is false when the entry is marked removable.
queue_bindiff(id, keep) ==
    [queue_job(id, "BinDiff", <<>>, ~keep) EXCEPT !.pc = "bindiff"]

\* The BinDiff worker's outcome: both objects, an error, or a panic.
BinDiffDone(j, r) ==
    CASE r = "ok" ->
           [j EXCEPT !.first_obj = Some(ObjInfo(<<"left.bin">>)),
                     !.second_obj = Some(ObjInfo(<<"right.bin">>)),
                     !.ret = "BinDiff", !.pc = "finished"]
      [] r = "err" -> Failed(j, "Failed to diff binaries")
      [] r = "panic" -> Panicked(j)

\* The user starts a whole-binary diff.
QueueBinDiff ==
    /\ pc = "poll" /\ nextId <= MaxJobs
    /\ \E keep \in BOOLEAN :
         jobs' = Append(jobs, queue_bindiff(nextId, keep))
    /\ nextId' = nextId + 1
    /\ UNCHANGED <<config, modified, watcher, subs, build, pc, reaped, sched,
                   unbuilt, lastEvent, peakSubs, replRoot, dropped>>

WorkerBinDiff(CO) ==
    /\ \E i \in 1..Len(jobs), r \in CO :
         /\ jobs[i].pc = "bindiff"
         /\ jobs' = [jobs EXCEPT ![i] = BinDiffDone(jobs[i], r)]
    /\ WorkerFrame

\* A persisted project with its target: the first tick enqueues a Build.
RegistryInit ==
    /\ Init
    /\ IsSome(config.build_obj)

RegistryNext ==
    \/ PollJobs
    \/ UpdateWatcher
    \/ Schedule(Marked)
    \/ ClearModified
    \/ QueueBinDiff
    \/ Cancel
    \/ WorkerSnapshot
    \/ WorkerCheckpoint
    \/ WorkerMake(ToolOk)
    \/ WorkerLoad(CallOutcomes)
    \/ WorkerDiff(CallsDone)
    \/ WorkerBinDiff(CallOutcomes)

RegistrySpec == RegistryInit /\ [][RegistryNext]_vars

----------------------------------------------------------------------------
(* The configuration lock with the worker's read made of two steps: the    *)
(* read guard is taken at config.read() and dropped at the end of the      *)
(* statement, once the record is cloned (build.rs:54).  The workers are    *)
(* under no obligation to make progress anywhere else.                     *)

\* Some worker holds the read lock.
ReadLocked == \E i \in 1..Len(jobs) : jobs[i].pc = "reading"

\* build.rs:54, config.read(): granted while no writer holds the lock.
WorkerAcquire ==
    /\ pc \notin {"sched", "clear"}
    /\ \E i \in 1..Len(jobs) :
         /\ jobs[i].pc = "snapshot"
         /\ jobs' = [jobs EXCEPT ![i].pc = "reading"]
    /\ WorkerFrame

\* build.rs:54-72: .clone() and the drop of the guard, then the paths.
WorkerRelease ==
    /\ \E i \in 1..Len(jobs) :
         /\ jobs[i].pc = "reading"
         /\ jobs' = [jobs EXCEPT ![i] = Snapshot(jobs[i], config)]
    /\ WorkerFrame

\* app.rs:269, config.write(): granted once no reader holds the lock.
LockedUpdateWatcher ==
    /\ ~ReadLocked
    /\ UpdateWatcher

LockTick == PollJobs \/ LockedUpdateWatcher \/ Schedule(Marked) \/ ClearModified

LockNext ==
    \/ PollJobs
    \/ LockedUpdateWatcher
    \/ Schedule(Marked)
    \/ ClearModified
    \/ WatchEvent(Events)
    \/ WorkerAcquire
    \/ WorkerRelease
    \/ WorkerCheckpoint
    \/ WorkerMake(ToolRuns)
    \/ WorkerLoad(CallOutcomes)
    \/ WorkerDiff(CallsDone)

LockSpec == Init /\ [][LockNext]_vars

\* The controller keeps ticking, and a worker that holds the read lock
\* finishes its clone; nothing else is asked of the workers, which may
\* stay in any stage for ever.
FairLockSpec ==
    /\ LockSpec
    /\ WF_vars(LockTick)
    /\ WF_vars(WorkerRelease)

----------------------------------------------------------------------------
(* The registry over time.  Whether queue_job marks a new entry removable  *)
(* is not given, so the scheduler's entries are marked or not; the         *)
(* registry then also holds joined entries that the prune pass leaves      *)
(* alone.                                                                  *)

KeepTick == PollJobs \/ UpdateWatcher \/ Schedule(MarkedOrNot) \/ ClearModified

KeepNext ==
    \/ PollJobs
    \/ UpdateWatcher
    \/ Schedule(MarkedOrNot)
    \/ ClearModified
    \/ WatchEvent(Events)
    \/ WorkerSnapshot
    \/ WorkerCheckpoint
    \/ WorkerMake(ToolOk)
    \/ WorkerLoad(CallOutcomes)
    \/ WorkerDiff(CallsDone)

KeepSpec == Init /\ [][KeepNext]_vars

\* The controller keeps ticking and every worker keeps running.
FairKeepSpec ==
    /\ KeepSpec
    /\ WF_vars(KeepTick)
    /\ SF_vars(WorkerSnapshot)
    /\ WF_vars(WorkerCheckpoint \/ WorkerMake(ToolOk)
                 \/ WorkerLoad(CallOutcomes) \/ WorkerDiff(CallsDone))

----------------------------------------------------------------------------
(* The claims.                                                             *)

\* The jobs of the registry that are Build jobs still holding their handle.
UnjoinedBuilds == {i \in 1..Len(jobs) : jobs[i].job_type = "Build" /\ jobs[i].handle}

\* C1: with a target configured, every qualifying change event is
\* eventually followed by the enqueueing of a Build job (at or after the
\* event), under fair ticks and fair workers.
C1_EveryChangeRebuilt ==
    ("event" \in unbuilt /\ IsSome(config.build_obj))
        ~> ("event" \notin unbuilt \/ ~IsSome(config.build_obj))

\* C2: the dirty flag goes from true to false only in a step of the
\* scheduler that enqueues a job, the clear coming before the enqueue.
C2_ClearedOnlyWhenEnqueueing ==
    /\ sched \in {<<>>, <<"clear">>, <<"clear", "enqueue">>}
    /\ pc = "poll" => sched # <<"clear">>

\* C3: a scheduler step taken while a Build job for a path is unjoined
\* adds no Build job for that path, and the registry never holds two
\* unjoined Build jobs for one path.
C3_OneBuildInFlight ==
    /\ [][\A i \in UnjoinedBuilds :
            \A k \in (Len(jobs) + 1)..Len(jobs') :
                ~(jobs'[k].job_type = "Build" /\ jobs'[k].obj_path = jobs[i].obj_path)]_vars
    /\ [](\A i, k \in UnjoinedBuilds : jobs[i].obj_path = jobs[k].obj_path => i = k)

\* C3's case: the scheduler has passed its in-flight check with a Build
\* job unjoined and the dirty flag read true, and enqueued nothing.
C3_Witness ==
    /\ pc = "clear"
    /\ sched = <<>>
    /\ UnjoinedBuilds # {}

\* The Build jobs of the registry whose worker has finished.
FinishedBuilds == {i \in 1..Len(jobs) : jobs[i].job_type = "Build" /\ is_finished(jobs[i])}

\* The Status rests at 5 of 5, "Complete".
RestsComplete(st) == st.step = 5 /\ st.total = 5 /\ st.message = "Complete"

\* C4 as stated: the Status of a finished Build worker is 5 of 5 "Complete"
\* or carries an error, also after cancellation.
C4_CompleteOrError ==
    \A i \in FinishedBuilds :
        RestsComplete(jobs[i].status) \/ IsSome(jobs[i].status.error)

\* C4, amended: the Status of a finished Build worker is 5 of 5 "Complete"
\* without error when it returned a BuildResult (whichever stages were
\* skipped), carries an error when run_build returned one, and rests
\* without error at the step of the checkpoint that received the token
\* (or before which a collaborator panicked) otherwise.
C4_FinishedStatus ==
    \A i \in FinishedBuilds :
        LET j == jobs[i]
        IN  CASE j.ret = "Build" ->
                   RestsComplete(j.status) /\ ~IsSome(j.status.error)
              [] j.ret = "None" /\ j.cancelledAt >= 0 ->
                   /\ ~IsSome(j.status.error)
                   /\ j.status.step = j.cancelledAt /\ j.status.total = 5
                   /\ j.status.message = StageMessage(j.cancelledAt, j.obj_path)
              [] j.ret = "None" /\ j.cancelledAt < 0 ->
                   IsSome(j.status.error)
              [] j.ret = "Panic" ->
                   ~IsSome(j.status.error) /\ j.status.step \in {2, 3, 4}

\* C4's case: a worker returned a BuildResult having skipped the diff.
C4_Witness ==
    \E i \in FinishedBuilds :
        /\ jobs[i].ret = "Build"
        /\ jobs[i].calls.diff = 0
        /\ 4 \notin jobs[i].cps
        /\ RestsComplete(jobs[i].status)

\* One run of the build tool succeeded: launched, output decoded, exit 0.
ToolSucceeded(o) == o.launched /\ o.stdout_utf8 /\ o.stderr_utf8 /\ o.code = Some(0)

\* C5: a run that returns a BuildResult has run each build exactly once,
\* each status records its own side's success, and each object is present
\* iff its own side's build succeeded; so is the result the controller
\* stores.
C5_ResultFromBuilds ==
    /\ \A i \in FinishedBuilds :
         LET j == jobs[i]
         IN  j.ret = "Build" =>
               /\ j.calls.make_asm = 1 /\ j.calls.make_src = 1
               /\ Unwrap(j.first_status).success = ToolSucceeded(Unwrap(j.tool[1]))
               /\ Unwrap(j.second_status).success = ToolSucceeded(Unwrap(j.tool[2]))
               /\ IsSome(j.first_obj) <=> ToolSucceeded(Unwrap(j.tool[1]))
               /\ IsSome(j.second_obj) <=> ToolSucceeded(Unwrap(j.tool[2]))
               /\ BuildResult(j).first_obj = j.first_obj
               /\ BuildResult(j).second_obj = j.second_obj
    /\ IsSome(build) =>
         /\ IsSome(Unwrap(build).first_obj) <=> Unwrap(build).first_status.success
         /\ IsSome(Unwrap(build).second_obj) <=> Unwrap(build).second_status.success

\* C5's case: the controller stored the result of a run whose asm build
\* failed and whose source build succeeded.
C5_Witness ==
    /\ IsSome(build)
    /\ ~Unwrap(build).first_status.success
    /\ Unwrap(build).second_status.success
    /\ ~IsSome(Unwrap(build).first_obj)
    /\ IsSome(Unwrap(build).second_obj)

\* Both objects of the run are loaded.
BothLoaded(j) == IsSome(j.first_obj) /\ IsSome(j.second_obj)

\* C6: a run calls diff_objs at most once and only with both objects
\* loaded, after the checkpoint of stage 4; a run that got past the loads
\* with both objects and was not cancelled at that checkpoint has called
\* it; a run missing an object goes on to "Complete" with no error, no
\* call and no stage-4 status update.
C6_DiffOnceIffBoth ==
    \A i \in 1..Len(jobs) :
        LET j == jobs[i]
        IN  /\ j.calls.diff <= 1
            /\ j.calls.diff = 1 => BothLoaded(j) /\ 4 \in j.cps /\ j.cancelledAt # 4
            /\ j.pc \in {"cp4", "diff"} => BothLoaded(j)
            /\ (j.pc \in {"cp5", "finished"} /\ BothLoaded(j) /\ j.cancelledAt # 4)
                 => j.calls.diff = 1
            /\ ~BothLoaded(j) => j.calls.diff = 0 /\ 4 \notin j.cps
            /\ ((j.pc = "cp5" \/ j.ret = "Build") /\ ~BothLoaded(j))
                 => ~IsSome(j.status.error) /\ {0, 1} \subseteq j.cps

\* C6's case: a run returned its result after one diff of both objects.
C6_Witness ==
    \E i \in FinishedBuilds :
        /\ jobs[i].ret = "Build"
        /\ jobs[i].calls.diff = 1
        /\ Unwrap(jobs[i].first_obj).diffed /\ Unwrap(jobs[i].second_obj).diffed

\* C7 as stated: a job whose cancellation was requested before its first
\* checkpoint ends with no result and no error, and its reaping logs no
\* failure.
C7_EarlyCancelSilent ==
    /\ \A i \in FinishedBuilds :
         jobs[i].askedEarly =>
           /\ jobs[i].ret = "None"
           /\ ~IsSome(jobs[i].status.error)
           /\ jobs[i].calls = NoCalls
    /\ \A k \in 1..Len(reaped) :
         reaped[k].askedEarly => ~reaped[k].delivered /\ ~reaped[k].error_logged

\* C7, amended: a job whose cancellation was requested before its first
\* checkpoint never runs the build tool and delivers no result; when its
\* configuration resolves, the first checkpoint receives the token and the
\* job ends with no error and nothing logged; when it does not, the job
\* ends with the configuration error, which is logged.
C7_EarlyCancel ==
    /\ \A i \in 1..Len(jobs) :
         LET j == jobs[i]
         IN  j.askedEarly =>
               /\ j.calls = NoCalls
               /\ j.ret \in {"Running", "None"}
               /\ j.pc \in {"snapshot", "cp0", "finished"}
               /\ is_finished(j) =>
                    \/ /\ j.cancelledAt = 0 /\ IsSome(j.snap)
                       /\ ~IsSome(j.status.error) /\ j.status.step = 0
                    \/ /\ j.cancelledAt = -1 /\ ~IsSome(j.snap)
                       /\ IsSome(j.status.error) /\ j.cps = {}
    /\ \A k \in 1..Len(reaped) :
         reaped[k].askedEarly =>
           /\ ~reaped[k].delivered
           /\ reaped[k].calls = NoCalls
           /\ reaped[k].error_logged <=> reaped[k].cancelledAt # 0
           /\ reaped[k].cancelledAt = 0 => ~IsSome(reaped[k].error)

\* C7's case: the controller reaped a job that was cancelled before its
\* first checkpoint and stopped there.
C7_Witness ==
    \E k \in 1..Len(reaped) :
        /\ reaped[k].askedEarly
        /\ reaped[k].cancelledAt = 0
        /\ reaped[k].ret = "None"

\* The event passes the filter as the claim words it: a modification with
\* a path whose extension is c, cp, cpp, h or hpp.
Qualifies(e) ==
    /\ e.kind = "Modify"
    /\ \E i \in 1..Len(e.paths) :
         extension(e.paths[i]) \in
           { Some(<<"c">>), Some(<<"c", "p">>), Some(<<"c", "p", "p">>),
             Some(<<"h">>), Some(<<"h", "p", "p">>) }

\* The step is the delivery of one event: nothing but the dirty flag and
\* the record of the event changes.
EventStep ==
    /\ IsSome(lastEvent')
    /\ UNCHANGED <<config, watcher, subs, jobs, build, pc, nextId, reaped, sched,
                   peakSubs, replRoot, dropped>>

\* The step is the root-change step of the tick with a project root set.
RootChangeStep ==
    /\ pc = "lock"
    /\ config.project_dir_change /\ IsSome(config.project_dir)
    /\ ~config'.project_dir_change

\* C8 as stated: the dirty flag goes from false to true only in the
\* delivery of a qualifying event, and no other action sets it.
C8_SetOnlyByEvents ==
    [][(~modified /\ modified') => (EventStep /\ Qualifies(Unwrap(lastEvent')))]_vars

\* C8, amended: the dirty flag goes from false to true only in the
\* delivery of a qualifying event or in the root-change step of the tick;
\* the delivery of an event that does not qualify changes no state.
C8_SetByEventsOrRootChange ==
    /\ [][(~modified /\ modified') =>
            \/ EventStep /\ Qualifies(Unwrap(lastEvent'))
            \/ RootChangeStep]_vars
    /\ [][(lastEvent' # lastEvent /\ ~Qualifies(Unwrap(lastEvent'))) =>
            UNCHANGED <<config, modified, watcher, subs, jobs, build, pc, nextId,
                        reaped, sched, unbuilt, peakSubs, replRoot, dropped>>]_vars

\* C8's case: the last event delivered does not qualify (a Modify of a
\* name ending in .o after a .cp, and of the dot-file .h) and the dirty
\* flag is false although a subscription is live.
C8_Witness ==
    /\ lastEvent = Some([kind |-> "Modify", paths |-> <<FileDotH, FileCpO>>])
    /\ ~modified
    /\ subs # <<>>
    /\ unbuilt = {}

\* C10: at most one subscription is ever live, the watcher owns the live
\* one, it is rooted at the root the last replacement read, every event
\* is delivered by that subscription, and after a root-change step the
\* only subscription that can be live is one rooted at the new root.
\* (subs is a sequence of roots and Some(r) is <<r>>: a registry holding
\* the one subscription rooted at r equals Some(r).)
C10_OneSubscription ==
    /\ [](/\ Len(subs) <= 1
          /\ peakSubs <= 1
          /\ subs # <<>> => watcher = Some(subs[1]) /\ watcher = replRoot
          /\ IsSome(watcher) => subs = <<Unwrap(watcher)>>)
    /\ [][lastEvent' # lastEvent => subs = replRoot /\ IsSome(replRoot)]_vars
    /\ [][(pc = "lock" /\ pc' # "lock" /\ config.project_dir_change) =>
            subs' \in {<<>>, config.project_dir}]_vars

\* C10's case: a root-change step ended the subscription rooted at p and
\* installed one rooted at q.
C10_Witness ==
    /\ dropped
    /\ IsSome(lastEvent)
    /\ watcher = Some(<<"q">>)
    /\ subs = <<<<"q">>>>

\* C9: once the root-change step has run with a project root and a target
\* configured (it cleared project_dir_change, replaced the watcher and set
\* the dirty flag), a Build job is eventually enqueued, whatever jobs are
\* in flight.
C9_RootChangeRebuilds ==
    ("root" \in unbuilt /\ IsSome(config.build_obj))
        ~> ("root" \notin unbuilt \/ ~IsSome(config.build_obj))

\* The step is the poll step of a tick (reap and prune, app.rs:218-267).
PollStep == pc = "poll" /\ pc' = "lock"

\* The identifiers the poll step just taken has joined.
JoinedIds == {reaped'[k].id : k \in 1..Len(reaped')}

\* C11: a poll step joins exactly the jobs that hold a handle and whose
\* worker has finished, each once; their handles are gone afterwards; a
\* job whose handle was taken is never joined again and never holds a
\* handle again; an unfinished job keeps its handle.
C11_JoinedOnce ==
    /\ [][PollStep =>
            /\ \A k1, k2 \in 1..Len(reaped') :
                 reaped'[k1].id = reaped'[k2].id => k1 = k2
            /\ \A i \in 1..Len(jobs) :
                 /\ jobs[i].id \in JoinedIds <=> (jobs[i].handle /\ is_finished(jobs[i]))
                 /\ jobs[i].id \in JoinedIds => reaped'[CHOOSE k \in 1..Len(reaped') :
                                                   reaped'[k].id = jobs[i].id].ret # "Running"
                 /\ (jobs[i].handle /\ ~is_finished(jobs[i])) =>
                      \E n \in 1..Len(jobs') : jobs'[n].id = jobs[i].id /\ jobs'[n].handle
            /\ \A n \in 1..Len(jobs') :
                 jobs'[n].id \in JoinedIds => ~jobs'[n].handle]_vars
    /\ [][\A i \in 1..Len(jobs), n \in 1..Len(jobs') :
            (jobs'[n].id = jobs[i].id /\ ~jobs[i].handle) => ~jobs'[n].handle]_vars

\* C11's case: a tick has joined one job while the registry holds another
\* whose handle an earlier tick took; that one is not joined again.
C11_Witness ==
    /\ pc = "lock"
    /\ reaped # <<>>
    /\ \E i \in 1..Len(jobs) :
         /\ ~jobs[i].handle
         /\ \A k \in 1..Len(reaped) : reaped[k].id # jobs[i].id

\* The identifiers of the registry's entries, in order.
IdsOf(js) == [i \in 1..Len(js) |-> js[i].id]

\* C12: the poll step removes an entry only if it is marked removable and
\* its handle has been joined (in this tick or before); every entry not
\* removable or still holding its handle stays; the entries that stay keep
\* their relative order; no other step removes an entry.
C12_PruneOnlyObserved ==
    /\ [][PollStep =>
            /\ \A i \in 1..Len(jobs) :
                 LET stays == \E n \in 1..Len(jobs') : jobs'[n].id = jobs[i].id
                     joined == ~jobs[i].handle \/ jobs[i].id \in JoinedIds
                 IN  /\ ~stays => (jobs[i].should_remove /\ joined)
                     /\ ~jobs[i].should_remove => stays
                     /\ (jobs[i].handle /\ ~is_finished(jobs[i])) => stays
            /\ \A n \in 1..Len(jobs') : \E i \in 1..Len(jobs) : jobs'[n].id = jobs[i].id
            /\ \A a, b \in 1..Len(jobs') :
                 a < b => \E i, k \in 1..Len(jobs) :
                            i < k /\ jobs[i].id = jobs'[a].id /\ jobs[k].id = jobs'[b].id]_vars
    /\ [][~PollStep =>
            /\ Len(jobs') >= Len(jobs)
            /\ SubSeq(IdsOf(jobs'), 1, Len(jobs)) = IdsOf(jobs)]_vars

\* C12's case: a poll step has joined a job, and the registry keeps an
\* entry that is joined but not removable next to one that is removable
\* but still holds its handle.
C12_Witness ==
    /\ pc = "lock"
    /\ reaped # <<>>
    /\ \E i, k \in 1..Len(jobs) :
         /\ ~jobs[i].handle /\ ~jobs[i].should_remove
         /\ jobs[k].handle /\ jobs[k].should_remove

\* The jobs a poll step finds with a handle and a worker that panicked.
PanickedJobs == {i \in 1..Len(jobs) : jobs[i].handle /\ jobs[i].ret = "Panic"}

\* C13: a poll step that meets a panicked worker joins it, logs an error
\* for that job and delivers nothing from it; the job's handle is gone
\* (it is no Build in flight any more) and a removable one is pruned; the
\* other finished jobs of the tick are joined as well, and the tick goes on
\* to the watcher and scheduler part.
C13_PanicTolerated ==
    [][(PollStep /\ PanickedJobs # {}) =>
         /\ \A i \in PanickedJobs :
              /\ \E k \in 1..Len(reaped') :
                   /\ reaped'[k].id = jobs[i].id
                   /\ reaped'[k].ret = "Panic"
                   /\ reaped'[k].error_logged /\ ~reaped'[k].delivered
              /\ \A n \in 1..Len(jobs') :
                   jobs'[n].id = jobs[i].id => (~jobs'[n].handle /\ ~jobs'[n].should_remove)
              /\ jobs[i].should_remove => \A n \in 1..Len(jobs') : jobs'[n].id # jobs[i].id
         /\ \A i \in 1..Len(jobs) :
              (jobs[i].handle /\ is_finished(jobs[i])) =>
                 \E k \in 1..Len(reaped') :
                    /\ reaped'[k].id = jobs[i].id
                    /\ reaped'[k].delivered <=> jobs[i].ret \in {"Build", "BinDiff"}
         /\ \A k \in 1..Len(reaped') :
              reaped'[k].error_logged <=>
                 (reaped'[k].ret = "Panic" \/ (reaped'[k].ret = "None" /\ IsSome(reaped'[k].error)))
         /\ (\A i \in 1..Len(jobs) :
               (jobs[i].handle /\ is_finished(jobs[i])) => jobs[i].ret \in {"Panic", "None"})
              => build' = build
         /\ pc' = "lock"]_vars

\* C13's case: one tick has joined a panicked worker and, after it in the
\* registry, a worker that delivered a result.
C13_Witness ==
    /\ pc = "lock"
    /\ \E k1, k2 \in 1..Len(reaped) :
         /\ k1 < k2
         /\ reaped[k1].ret = "Panic" /\ reaped[k1].error_logged
         /\ reaped[k2].delivered
    /\ IsSome(build)

\* The jobs a poll step finds finished, unjoined and with a result.
Delivering ==
    {i \in 1..Len(jobs) :
        jobs[i].handle /\ is_finished(jobs[i]) /\ jobs[i].ret \in {"Build", "BinDiff"}}

\* What the consumer holds once job j's result has been stored.
HeldAfter(j) ==
    IF j.ret = "Build"
    THEN [first_status |-> Unwrap(j.first_status),
          second_status |-> Unwrap(j.second_status),
          first_obj |-> j.first_obj, second_obj |-> j.second_obj]
    ELSE [first_status |-> [success |-> TRUE, log |-> ""],
          second_status |-> [success |-> TRUE, log |-> ""],
          first_obj |-> j.first_obj, second_obj |-> j.second_obj]

\* C20: after a poll step view_state.build is the result of the last job,
\* in registry order, that the step joined with a result; a step that
\* joins only jobs ended by an error, a cancellation or a panic leaves it
\* as it was; no other step changes it.
C20_LatestResultHeld ==
    /\ [][PollStep =>
            build' = IF Delivering = {} THEN build
                     ELSE Some(HeldAfter(jobs[Max(Delivering)]))]_vars
    /\ [][~PollStep => build' = build]_vars

\* C20's case: one tick joined a BinDiff job and, later in the registry,
\* a Build job; the consumer holds the Build job's result.
C20_Witness ==
    /\ pc = "lock"
    /\ \E k1, k2 \in 1..Len(reaped) :
         k1 < k2 /\ reaped[k1].ret = "BinDiff" /\ reaped[k2].ret = "Build"
    /\ IsSome(build)
    /\ Unwrap(build).first_status.log # ""

\* The positions of a worker inside a stage (a blocking call).
StagePcs == {"make_asm", "make_src", "load_asm", "load_src", "diff"}

\* C14: a job whose checkpoint k received the token has stopped there:
\* it is finished without result or error, k is its last status update,
\* and no stage after checkpoint k has run; a token is consumed only by a
\* checkpoint step, which ends the job; a worker inside a stage with a
\* token pending completes that stage.
C14_CancelAtCheckpoints ==
    /\ [](\A i \in 1..Len(jobs) :
            LET j == jobs[i]
                k == j.cancelledAt
            IN  /\ k >= 0 =>
                     /\ is_finished(j) /\ j.ret = "None" /\ ~IsSome(j.status.error)
                     /\ k \in j.cps /\ \A c \in j.cps : c <= k
                     /\ j.status.step = k /\ j.status.message = StageMessage(k, j.obj_path)
                     /\ k <= 0 => j.calls.make_asm = 0
                     /\ k <= 1 => j.calls.make_src = 0
                     /\ k <= 2 => j.calls.read_asm = 0
                     /\ k <= 3 => j.calls.read_src = 0
                     /\ k <= 4 => j.calls.diff = 0
                /\ (j.token /\ j.pc \in StagePcs) => (k = -1 /\ j.ret = "Running"))
    /\ [][\A i \in 1..Len(jobs), n \in 1..Len(jobs') :
            (jobs'[n].id = jobs[i].id /\ jobs[i].token) =>
               /\ ~jobs'[n].token =>
                    /\ jobs[i].pc \in Checkpoints
                    /\ jobs'[n].cancelledAt = CheckpointOf(jobs[i].pc)
                    /\ is_finished(jobs'[n])
                    /\ jobs'[n].calls = jobs[i].calls
               /\ (jobs[i].pc \in StagePcs /\ jobs'[n].pc # jobs[i].pc) =>
                    /\ jobs'[n].token /\ jobs'[n].cancelledAt = -1
                    /\ jobs'[n].ret = "Panic" \/ IsSome(jobs'[n].status.error)
                         \/ jobs'[n].pc \in Checkpoints]_vars

\* C14's case: a token sent while the source build ran was received by
\* the checkpoint after it; both builds ran, nothing was loaded.
C14_Witness ==
    \E i \in 1..Len(jobs) :
        /\ jobs[i].cancelledAt \in {2, 3}
        /\ ~jobs[i].askedEarly
        /\ jobs[i].calls.make_asm = 1 /\ jobs[i].calls.make_src = 1
        /\ jobs[i].calls.read_src = 0 /\ jobs[i].calls.diff = 0

\* C15: a configuration edit made after a job was enqueued under a usable
\* configuration, before its worker has read the configuration, does not
\* change what the run works with: the snapshot the worker takes is the
\* same after the edit as before it.
C15_EditsDoNotReachRun ==
    [][\A i \in 1..Len(jobs) :
         (/\ jobs[i].job_type = "Build" /\ jobs[i].pc = "snapshot"
          /\ IsSome(Snapshot(jobs[i], config).snap)
          /\ i <= Len(jobs') /\ jobs'[i] = jobs[i]
          /\ config' # config)
            => Snapshot(jobs[i], config') = Snapshot(jobs[i], config)]_vars

\* The job ended on the error of a failed parse, or in a panic.
EndedOnParse(j) ==
    /\ is_finished(j)
    /\ \/ j.ret = "None" /\ j.status.error = Some("Failed to read object")
       \/ j.ret = "Panic"

\* C16: a parse that fails on a side whose build succeeded ends the run
\* there: the job is finished with the parse error and no result, the
\* stages after it (the other load, the diff, "Complete") have not run,
\* and reaping it logs the error and delivers nothing; a side whose build
\* failed is never parsed and gets no status update, and a run whose
\* builds both failed still returns its result.
C16_ParseFailureFatal ==
    /\ \A i \in 1..Len(jobs) :
         LET j == jobs[i]
         IN  /\ (j.calls.read_asm = 1 /\ ~IsSome(j.first_obj)) =>
                  /\ Unwrap(j.first_status).success
                  /\ EndedOnParse(j)
                  /\ j.calls.read_src = 0 /\ j.calls.diff = 0
                  /\ j.cps \cap {3, 4, 5} = {}
             /\ (j.calls.read_src = 1 /\ ~IsSome(j.second_obj)) =>
                  /\ Unwrap(j.second_status).success
                  /\ EndedOnParse(j)
                  /\ j.calls.diff = 0
                  /\ j.cps \cap {4, 5} = {}
             /\ j.status.error = Some("Failed to read object") =>
                  j.ret = "None" /\ is_finished(j)
             /\ (IsSome(j.first_status) /\ ~Unwrap(j.first_status).success) =>
                  j.calls.read_asm = 0 /\ 2 \notin j.cps /\ ~IsSome(j.first_obj)
             /\ (IsSome(j.second_status) /\ ~Unwrap(j.second_status).success) =>
                  j.calls.read_src = 0 /\ 3 \notin j.cps /\ ~IsSome(j.second_obj)
             /\ (/\ is_finished(j) /\ j.cancelledAt = -1
                 /\ IsSome(j.first_status) /\ ~Unwrap(j.first_status).success
                 /\ IsSome(j.second_status) /\ ~Unwrap(j.second_status).success) =>
                  j.ret = "Build" /\ ~IsSome(j.status.error)
    /\ \A k \in 1..Len(reaped) :
         reaped[k].error = Some("Failed to read object") =>
            ~reaped[k].delivered /\ reaped[k].error_logged

\* C16's case: the controller reaped a job whose asm parse failed after
\* both builds had run; the source object was never read.
C16_Witness ==
    \E k \in 1..Len(reaped) :
        /\ reaped[k].error = Some("Failed to read object")
        /\ reaped[k].calls.make_src = 1
        /\ reaped[k].calls.read_asm = 1
        /\ reaped[k].calls.read_src = 0
        /\ ~reaped[k].delivered

\* The error a configuration gives a run, None when it is usable: a
\* directory is unset, or a build directory is not under the project
\* directory.
ConfigError(cfg) ==
    IF ~IsSome(cfg.project_dir) THEN Some("Missing project dir")
    ELSE IF ~IsSome(cfg.build_asm_dir) THEN Some("Missing build asm dir")
    ELSE IF ~IsSome(cfg.build_src_dir) THEN Some("Missing build src dir")
    ELSE IF ~IsPrefix(Unwrap(cfg.project_dir), Unwrap(cfg.build_asm_dir))
         THEN Some("Failed to create relative asm obj path")
    ELSE IF ~IsPrefix(Unwrap(cfg.project_dir), Unwrap(cfg.build_src_dir))
         THEN Some("Failed to create relative src obj path")
    ELSE None

\* C17: the worker's first step, on an unusable configuration, ends the
\* job with the configuration error and touches nothing else (no status
\* update, no poll of the cancel channel, no tool run); on a usable one it
\* goes on to the first checkpoint.  A job past that step without a
\* snapshot is finished with an error, a pristine status and no call.
C17_ConfigErrorAborts ==
    /\ [][\A i \in 1..Len(jobs), n \in 1..Len(jobs') :
            (/\ jobs[i].job_type = "Build" /\ jobs[i].pc = "snapshot"
             /\ jobs'[n].id = jobs[i].id /\ jobs'[n].pc # "snapshot") =>
               IF IsSome(ConfigError(config))
               THEN jobs'[n] = [jobs[i] EXCEPT !.status.error = ConfigError(config),
                                               !.ret = "None", !.pc = "finished"]
               ELSE jobs'[n].pc = "cp0" /\ IsSome(jobs'[n].snap)]_vars
    /\ [](\A i \in 1..Len(jobs) :
            LET j == jobs[i]
            IN  (j.job_type = "Build" /\ j.pc # "snapshot" /\ ~IsSome(j.snap)) =>
                  /\ is_finished(j) /\ j.ret = "None" /\ IsSome(j.status.error)
                  /\ [j.status EXCEPT !.error = None] = NewStatus
                  /\ j.cps = {} /\ j.cancelledAt = -1
                  /\ j.calls = NoCalls /\ j.tool = <<None, None>>)

\* C17's case: a job whose source build directory is not under the
\* project directory ended with that error; the token sent to it is
\* still in the channel.
C17_Witness ==
    \E i \in 1..Len(jobs) :
        /\ jobs[i].status.error = Some("Failed to create relative src obj path")
        /\ jobs[i].token
        /\ is_finished(jobs[i])
        /\ jobs[i].calls = NoCalls

\* The tool ran and its captured output is not valid UTF-8.
DecodeFailed(o) == o.launched /\ (~o.stdout_utf8 \/ ~o.stderr_utf8)

\* The errors a run takes from its parse and diff stages.
StageErrors == {"Failed to read object", "Failed to diff objects"}

\* C18: a build whose output cannot be decoded ends the job there with an
\* error and no result; a build that could not be launched or exited
\* non-zero leaves a failed BuildStatus for its side and no error of its
\* own on the job.
C18_DecodeFailureIsPipelineError ==
    \A i \in 1..Len(jobs) :
        LET j == jobs[i]
            st == <<j.first_status, j.second_status>>
        IN  \A s \in {1, 2} :
              IsSome(j.tool[s]) =>
                LET o == Unwrap(j.tool[s])
                IN  /\ DecodeFailed(o) =>
                          /\ is_finished(j) /\ j.ret = "None"
                          /\ IsSome(j.status.error)
                          /\ j.status.error \notin {Some(e) : e \in StageErrors}
                    /\ (~DecodeFailed(o) /\ ~ToolSucceeded(o)) =>
                          /\ IsSome(st[s]) /\ ~Unwrap(st[s]).success
                          /\ IsSome(j.status.error) =>
                                j.status.error \in {Some(e) : e \in StageErrors}

\* C19: a tick that has started its poll step gets through it, and a tick
\* past the poll step gets to its end, with no assumption on the workers
\* but that a clone under the read lock ends; the controller never holds
\* the write lock while a worker holds the read lock.
C19_TickTerminates ==
    /\ (pc = "poll") ~> (pc = "lock")
    /\ (pc # "poll") ~> (pc = "poll")
    /\ [](pc \in {"sched", "clear"} => ~ReadLocked)

\* C19's case: a tick has run to its end (it found the Build job in flight
\* and only cleared the flag) while that job's worker is still in the
\* build tool.
C19_Witness ==
    /\ pc = "poll"
    /\ sched = <<"clear">>
    /\ \E i \in 1..Len(jobs) :
         jobs[i].handle /\ jobs[i].pc = "make_asm"

\* The identifiers a job can get.
JobIds == 1..(MaxJobs + 1)

\* The registry holds the job `id`.
InRegistry(id) == \E i \in 1..Len(jobs) : jobs[i].id = id

\* The registry holds the job `id` and its worker has finished.
FinishedInRegistry(id) ==
    \E i \in 1..Len(jobs) : jobs[i].id = id /\ is_finished(jobs[i])

C22_CancelledRunHasNoResult ==
    /\ [][\A i \in 1..Len(jobs), n \in 1..Len(jobs') :
            (/\ jobs'[n].id = jobs[i].id
             /\ jobs[i].pc \in Checkpoints /\ jobs'[n].pc # jobs[i].pc
             /\ jobs[i].token) =>
               /\ is_finished(jobs'[n]) /\ jobs'[n].ret = "None"
               /\ jobs'[n].cancelledAt = CheckpointOf(jobs[i].pc)]_vars
    /\ [](\A i \in 1..Len(jobs) :
            /\ jobs[i].ret = "Build" =>
                 jobs[i].cancelledAt = -1 /\ 5 \in jobs[i].cps
            /\ jobs[i].cancelledAt >= 0 => jobs[i].ret = "None")
    /\ [](\A k \in 1..Len(reaped) :
            reaped[k].delivered => reaped[k].cancelledAt = -1)

\* C22's case: the controller reaped a job that ran both builds, both
\* loads and the diff and met the token at the "Complete" checkpoint.
C22_Witness ==
    \E k \in 1..Len(reaped) :
        /\ reaped[k].cancelledAt = 5
        /\ reaped[k].calls.diff = 1
        /\ reaped[k].ret = "None"
        /\ ~reaped[k].delivered

\* The step is the part of the tick under the write lock, entered with
\* the root-change flag set.
FlaggedLockStep == pc = "lock" /\ pc' # "lock" /\ config.project_dir_change

\* C23: a root-change step without a project root drops the watcher and
\* its subscription and changes neither the flag nor the dirty flag; one
\* with a project root clears the flag and sets the dirty flag whether or
\* not the watcher could be created, and a failed creation leaves no
\* watcher and no subscription; a watcher appears only in a root-change
\* step entered with the flag set, and no step of the tick sets the flag.
C23_RootChangeFailures ==
    /\ [][(FlaggedLockStep /\ ~IsSome(config.project_dir)) =>
            /\ watcher' = None /\ subs' = <<>>
            /\ config' = config
            /\ modified' = modified]_vars
    /\ [][(FlaggedLockStep /\ IsSome(config.project_dir)) =>
            /\ config' = [config EXCEPT !.project_dir_change = FALSE]
            /\ modified'
            /\ \/ watcher' = config.project_dir /\ subs' = config.project_dir
               \/ watcher' = None /\ subs' = <<>>]_vars
    /\ [][(watcher' # watcher /\ IsSome(watcher')) =>
            (FlaggedLockStep /\ IsSome(config.project_dir))]_vars
    /\ [][pc' # pc => (config'.project_dir_change => config.project_dir_change)]_vars

\* C23's case: the root-change step ran for the configured root, the
\* watcher could not be created: the flag is cleared, the dirty flag is
\* set and there is no watcher, the one of the former root being dropped.
C23_Witness ==
    /\ watcher = None /\ subs = <<>>
    /\ IsSome(config.project_dir)
    /\ ~config.project_dir_change
    /\ replRoot = config.project_dir
    /\ modified
    /\ dropped

\* The step is the part of the tick under the write lock up to the
\* scheduler's read of the target and of the dirty flag.
LockStep == pc = "lock" /\ pc' # "lock"

\* C24: with no target object configured, the tick ends after the
\* root-change step with the registry as it was and the dirty flag as that
\* step left it; no step enqueues a job or clears a set dirty flag; in a
\* tick that finds a target and the dirty flag set the scheduler runs: it
\* enqueues a Build job for that target unless one is in flight, and the
\* flag is cleared.
C24_NoTargetKeepsDirty ==
    /\ [][(LockStep /\ ~IsSome(config.build_obj)) =>
            /\ pc' = "poll"
            /\ jobs' = jobs /\ nextId' = nextId
            /\ modified' = (modified \/ RootChangeStep)]_vars
    /\ [][~IsSome(config.build_obj) =>
            /\ modified => modified'
            /\ Len(jobs') <= Len(jobs) /\ nextId' = nextId]_vars
    /\ [](pc \in {"sched", "clear"} => IsSome(config.build_obj))
    /\ [][(LockStep /\ IsSome(config.build_obj) /\ modified) => pc' = "sched"]_vars
    /\ [][(pc = "sched" /\ pc' # pc) =>
            /\ pc' = "clear"
            /\ IF BuildInFlight(jobs) THEN jobs' = jobs
               ELSE /\ Len(jobs') = Len(jobs) + 1
                    /\ jobs'[Len(jobs')].obj_path = Unwrap(config.build_obj)
                    /\ jobs'[Len(jobs')].job_type = "Build"]_vars
    /\ [][(pc = "clear" /\ pc' # pc) => (~modified' /\ pc' = "poll")]_vars

\* C24's case: two qualifying events and a tick in between have left the
\* dirty flag set with no target configured, no job was ever enqueued, and
\* the tick now finds a target.
C24_Witness ==
    /\ pc = "lock"
    /\ modified /\ unbuilt = {"root", "event"}
    /\ IsSome(config.build_obj)
    /\ nextId = 1
    /\ ~config.project_dir_change
    /\ IsSome(watcher)

====
